---- MODULE Spec2Model ----
(***************************************************************************)
(* Model of circuitpython_sync.Device (src/src/circuitpython_sync/         *)
(* __init__.py): the constructor, the remote path enumerators (tree,      *)
(* glob), the local backup / restore helpers and the pull / push           *)
(* synchronisation loops; and of the command pull of main (__main__.py).   *)
(*                                                                         *)
(* A path is a sequence of names (pathlib.Path parts).  A string handed    *)
(* over by glob is a record [path, slash]: slash is the trailing "/".      *)
(* The local cache directory <cache>/<UID>/ holds fs/ (variable lfs, keyed *)
(* by the path below the cache directory) and _bak/<timestamp>/ (variable  *)
(* baks, keyed by timestamp, each snapshot keyed by the path below it).    *)
(* Directories <cache>/<other UID>/ of devices served earlier are kept in *)
(* others; cpath names the directory the present binding works in.        *)
(***************************************************************************)
EXTENDS Integers, Sequences, FiniteSets, TLC

\* ------------------------------------------------------------------ bounds
\* operations (pull, push, glob, tree, auto_backup, restore_backup) started
\* in one behaviour
MaxRuns == 2
\* seconds the wall clock can show
MaxClock == 2
\* local I/O faults (OSError not forced by the state of the disk) injected
MaxIOFaults == 1

\* ------------------------------------------------------------- the universe
FsRoot == <<"fs">>

P_a == <<"fs", "a.py">>
P_b == <<"fs", "b">>
P_bc == <<"fs", "b", "c.py">>
P_d == <<"fs", "d">>
P_de == <<"fs", "d", "e.py">>
P_x == <<"fs", "x.py">>

\* the characters of each name and pattern in use (a TLA+ string is atomic)
Chars(s) ==
    CASE s = "fs" -> <<"f", "s">>
      [] s = "a.py" -> <<"a", ".", "p", "y">>
      [] s = "b" -> <<"b">>
      [] s = "c.py" -> <<"c", ".", "p", "y">>
      [] s = "d" -> <<"d">>
      [] s = "e.py" -> <<"e", ".", "p", "y">>
      [] s = "x.py" -> <<"x", ".", "p", "y">>
      [] s = "*" -> <<"*">>
      [] s = "*.py" -> <<"*", ".", "p", "y">>
      [] s = "?" -> <<"?">>
      [] s = "" -> <<>>

\* the patterns glob is called with; "" stands for None and for ""
Patterns == {"", "*.py", "?", "fs"}

\* the root_path values glob is called with
GlobRoots == {<<"fs">>, <<"fs", "b">>}

Entry(n, isdir) == [name |-> n, directory |-> isdir]

EmptyFn == [x \in {} |-> "dir"]

\* device trees: a listing per directory, in the order the device returns it
TreeFileFirst ==
    [dirs |-> (FsRoot :> <<Entry("a.py", FALSE), Entry("b", TRUE)>>)
              @@ (P_b :> <<Entry("c.py", FALSE)>>),
     files |-> (P_a :> "v1") @@ (P_bc :> "v1")]

TreeDirFirst ==
    [dirs |-> (FsRoot :> <<Entry("b", TRUE), Entry("a.py", FALSE)>>)
              @@ (P_b :> <<Entry("c.py", FALSE)>>),
     files |-> (P_a :> "v1") @@ (P_bc :> "v1")]

TreeEmpty == [dirs |-> (FsRoot :> <<>>), files |-> EmptyFn]

TreeTwoDirs ==
    [dirs |-> (FsRoot :> <<Entry("d", TRUE), Entry("b", TRUE), Entry("a.py", FALSE)>>)
              @@ (P_d :> <<Entry("e.py", FALSE)>>)
              @@ (P_b :> <<Entry("c.py", FALSE)>>),
     files |-> (P_a :> "v1") @@ (P_bc :> "v1") @@ (P_de :> "v1")]

\* the device trees pull and push meet, and those the enumerators meet
RemoteTrees == {TreeFileFirst, TreeEmpty}

EnumTrees == RemoteTrees \cup {TreeDirFirst, TreeTwoDirs}

\* what the device answers to GET cp/version.json: with an identity, with
\* an empty one, without one; and what an earlier firmware answered
VerKnown == ("UID" :> "A") @@ ("version" :> "9.2.1")

VerEmptyUID == ("UID" :> "") @@ ("version" :> "9.2.1")

VerNoUID == ("version" :> "9.2.1")

VerOld == ("UID" :> "A") @@ ("version" :> "9.0.0")

VerOther == ("UID" :> "B") @@ ("version" :> "9.2.1")

DeviceVersions == {VerKnown, VerEmptyUID, VerNoUID}

\* local fs/ subtrees a cache directory can hold before an operation
LocalTrees ==
    { EmptyFn,
      (FsRoot :> "dir") @@ (P_x :> "old"),
      (FsRoot :> "dir") @@ (P_a :> "old") @@ (P_b :> "dir") @@ (P_bc :> "old"),
      (FsRoot :> "dir") @@ (P_b :> "old") }

\* ------------------------------------------------------------------ state
VARIABLES
    rdirs,        \* device: directory path -> listing
    rfiles,       \* device: file path -> content
    rversion,     \* device: the body of cp/version.json
    version,      \* Device._version
    cachedir,     \* local_path: name of a cache root in it -> its sidecar
    cpath,        \* the name in local_path of the directory lfs and baks show
    others,       \* the other directories in local_path: name -> [fs, baks]
    lfs,          \* local <cache>/fs subtree: path -> "dir" or file content
    baks,         \* local <cache>/_bak: timestamp -> snapshot
    clock,        \* datetime.now() to the second
    runs,         \* operations started
    iofaults,     \* injected local I/O faults
    op,           \* the running (or last) operation
    status,       \* "idle", "running", "ok", "aborted", "raised"
    cause,        \* the exception that ended the operation
    backup_path,  \* pull's local backup_path: 0 is None
    gen,          \* the glob generator: its pattern, position, frames
    pending,      \* the path glob handed to pull's loop body
    walk,         \* push: the position of fs.rglob("*")
    tstack,       \* tree: the frames of the recursion
    tresult,      \* tree: the value returned
    trace,        \* what the operation did, in order
    pre,          \* lfs when the operation started
    prebaks,      \* baks when the operation started
    prev          \* the operation before this one, as it ended

vars == <<rdirs, rfiles, rversion, version, cachedir, cpath, others, lfs, baks, clock, runs, iofaults, op, status, cause,
          backup_path, gen, pending, walk, tstack, tresult, trace, pre, prev, prebaks>>

binding == <<rversion, version, cachedir, cpath, others>>

NoItem == [path |-> <<>>, slash |-> FALSE]
NoGen == [pattern |-> "", root |-> <<>>, pc |-> "none", stack |-> <<>>]
NoWalk == [frontier |-> {}, cur |-> {}, started |-> FALSE]

Ev(e, who, p, sl, r) == [ev |-> e, by |-> who, path |-> p, slash |-> sl, res |-> r]

\* what is kept of an operation once the next one starts: how it ended, the
\* backup it returned, fs/ before it, the paths it wrote
NoPrev == [op |-> "none", status |-> "idle", backup |-> 0, pre |-> EmptyFn,
           moved |-> {}, failed |-> FALSE]

Ended ==
    [op |-> op, status |-> status, backup |-> backup_path, pre |-> pre,
     moved |-> {[path |-> trace[i].path, slash |-> trace[i].ev = "mkdir"] :
                   i \in {k \in 1..Len(trace) :
                             trace[k].ev \in {"mkdir", "write"} /\ trace[k].res = "ok"}},
     failed |-> \E i \in 1..Len(trace) : trace[i].res \in {"err", "badjson", "failed"}]

\* before Device(client, local_path) is constructed (the cache root of the
\* device is there, with the sidecar of an earlier session, when its fs/
\* is), or once it was constructed for a device with an identity
InitWith(trees, constructed) ==
    /\ \E t \in trees : rdirs = t.dirs /\ rfiles = t.files
    /\ lfs \in LocalTrees
    /\ cpath = "A"
    /\ others = EmptyFn
    /\ IF constructed
       THEN /\ rversion = VerKnown
            /\ version = VerKnown
            /\ cachedir = ("A" :> [sidecar |-> VerKnown])
            /\ status = "idle"
       ELSE /\ rversion \in DeviceVersions
            /\ version = EmptyFn
            /\ cachedir = IF lfs = EmptyFn THEN EmptyFn
                          ELSE ("A" :> [sidecar |-> VerOld])
            /\ status = "unbound"
    /\ baks = EmptyFn
    /\ clock = 1
    /\ runs = 0
    /\ iofaults = 0
    /\ op = "none"
    /\ cause = "none"
    /\ backup_path = 0
    /\ gen = NoGen
    /\ pending = NoItem
    /\ walk = NoWalk
    /\ tstack = <<>>
    /\ tresult = <<>>
    /\ trace = <<>>
    /\ pre = lfs
    /\ prebaks = baks
    /\ prev = NoPrev

Init == InitWith(RemoteTrees, FALSE)

InitEnum == InitWith(EnumTrees, TRUE)

InitBackup == InitWith(RemoteTrees, TRUE)

\* ---------------------------------------------------------------- helpers
IsDirAt(t, p) == p \in DOMAIN t /\ t[p] = "dir"

Prefixes(p) == {SubSeq(p, 1, k) : k \in 0..Len(p)}

Parent(p) == SubSeq(p, 1, Len(p) - 1)

\* f overridden by g
Override(f, g) == [p \in DOMAIN f \cup DOMAIN g |-> IF p \in DOMAIN g THEN g[p] ELSE f[p]]

\* fnmatch.fnmatch on the characters of a name and of a pattern ("*", "?")
RECURSIVE Match(_, _)
Match(n, p) ==
    IF p = <<>> THEN n = <<>>
    ELSE IF Head(p) = "*" THEN Match(n, Tail(p)) \/ (n # <<>> /\ Match(Tail(n), p))
    ELSE IF Head(p) = "?" THEN n # <<>> /\ Match(Tail(n), Tail(p))
    ELSE n # <<>> /\ Head(n) = Head(p) /\ Match(Tail(n), Tail(p))

fnmatch(name, pat) == Match(Chars(name), Chars(pat))

\* (a variant relative to the cache directory, not to fs/)
RelTree_ToCache(fs) ==
    [r \in {<<>>} \cup DOMAIN fs |-> IF r = <<>> THEN "dir" ELSE fs[r]]

\* the subtree below fs/ keyed by the path relative to fs/, and back
RelTree(fs) == [r \in {Tail(p) : p \in DOMAIN fs} |-> fs[FsRoot \o r]]

AbsTree(t) == [p \in {FsRoot \o r : r \in DOMAIN t} |-> t[Tail(p)]]

\* shutil.copytree(src, dst, dirs_exist_ok=True) on trees keyed by relative
\* path.  An entry is not copied when it or a directory above it cannot be
\* written: a file meets a directory of that name (or a directory a file),
\* or the OSError injected at the paths of bad.  copytree goes on with the
\* other entries and raises at the end (ok = FALSE).
CopyBlocked(src, dst, bad, p) ==
    \E q \in Prefixes(p) :
        \/ q \in bad
        \/ q \in DOMAIN src /\ q \in DOMAIN dst /\ (src[q] = "dir") # (dst[q] = "dir")

CopyTree(src, dst, bad) ==
    LET copied == {p \in DOMAIN src : ~CopyBlocked(src, dst, bad, p)}
    IN  [tree |-> Override(dst, [p \in copied |-> src[p]]),
         ok |-> copied = DOMAIN src]

\* the places an injected OSError can hit one copytree: none, or one entry
FaultPlaces(src, n) ==
    {{}} \cup (IF n < MaxIOFaults THEN {{p} : p \in DOMAIN src} ELSE {})

\* (a variant that names the backup directory and copies nothing into it)
auto_backup_MakedirsOnly(fs, bk, now, n) ==
    IF ~IsDirAt(fs, FsRoot)
    THEN {[baks |-> bk, ret |-> 0, fault |-> FALSE]}
    ELSE {[baks |-> Override(bk, now :> (IF now \in DOMAIN bk THEN bk[now] ELSE (<<>> :> "dir"))),
           ret |-> now, fault |-> FALSE]}

\* Device.auto_backup: the outcomes [baks, ret, fault]; ret = 0 is None
auto_backup(fs, bk, now, n) ==
    IF ~IsDirAt(fs, FsRoot)
    THEN {[baks |-> bk, ret |-> 0, fault |-> FALSE]}
    ELSE LET made == IF now \in DOMAIN bk THEN bk[now] ELSE (<<>> :> "dir")
         IN  { LET c == CopyTree(RelTree(fs), made, bad)
               IN  [baks |-> Override(bk, now :> c.tree),
                    ret |-> IF c.ok THEN now ELSE 0,
                    fault |-> bad # {}]
               : bad \in FaultPlaces(RelTree(fs), n) }

\* (a variant that empties fs/ before it copies the snapshot)
restore_backup_Replace(fs, bk, backup, n) ==
    IF ~(backup \in DOMAIN bk /\ IsDirAt(bk[backup], <<>>))
    THEN {[fs |-> fs, ok |-> FALSE, fault |-> FALSE]}
    ELSE {[fs |-> AbsTree(bk[backup]), ok |-> TRUE, fault |-> FALSE]}

\* Device.restore_backup: the outcomes [fs, ok, fault]
restore_backup(fs, bk, backup, n) ==
    IF ~(backup \in DOMAIN bk /\ IsDirAt(bk[backup], <<>>))
    THEN {[fs |-> fs, ok |-> FALSE, fault |-> FALSE]}
    ELSE IF FsRoot \in DOMAIN fs /\ fs[FsRoot] # "dir"
    THEN {[fs |-> fs, ok |-> FALSE, fault |-> FALSE]}
    ELSE LET made == Override(FsRoot :> "dir", fs)
         IN  { LET c == CopyTree(bk[backup], RelTree(made), bad)
               IN  [fs |-> AbsTree(c.tree), ok |-> c.ok, fault |-> bad # {}]
               : bad \in FaultPlaces(bk[backup], n) }

\* ------------------------------------------------------------- the device
\* the answers the device (or the transport) can give to GET p/ : a listing,
\* a ClientRequestError (transport failure, non-2xx status), or a 2xx body
\* that is not JSON
ListAnswers(p) == (IF p \in DOMAIN rdirs THEN {"ok"} ELSE {}) \cup {"err", "badjson"}

\* to GET p/ when the body is not read as JSON
DirAnswers(p) == (IF p \in DOMAIN rdirs THEN {"ok"} ELSE {}) \cup {"err"}

\* to GET p of a file
FileAnswers(p) == (IF p \in DOMAIN rfiles THEN {"ok"} ELSE {}) \cup {"err"}

\* ------------------------------------------------------------ local disk
\* os.makedirs(p, exist_ok=True): refused when p or a directory above it is
\* a file
MkdirRefused(fs, p) ==
    \E q \in Prefixes(p) : q # <<>> /\ q \in DOMAIN fs /\ fs[q] # "dir"

\* (a variant that creates nothing)
makedirs_Nothing(fs, p) == fs

makedirs(fs, p) ==
    Override(fs, [q \in {r \in Prefixes(p) : r # <<>>} |-> "dir"])

\* open(p, "wb"): refused when p is a directory or its parent is none
OpenRefused(fs, p) == IsDirAt(fs, p) \/ ~IsDirAt(fs, Parent(p))

\* --------------------------------------------------------------- starting
\* the exception a failed request ends with
ErrorText(a) == IF a = "err" THEN "ClientRequestError" ELSE "JSONDecodeError"

\* a Device object exists and no call on it is under way
CanStart ==
    /\ status \notin {"running", "unbound"}
    /\ ~(op = "init" /\ status = "raised")
    /\ runs < MaxRuns

\* -------------------------------------------------------- Device.__init__
\* self._version.get("UID", None): <<>> is None
uid(v) == IF "UID" \in DOMAIN v THEN <<v["UID"]>> ELSE <<>>

\* (a variant that only asks for the key)
UidKnown_KeyPresent(v) == uid(v) # <<>>

\* "if not self.uid" is false
UidKnown(v) == uid(v) # <<>> /\ uid(v)[1] # ""

VersionUrl == <<"cp", "version.json">>

\* (a variant that leaves the identity out of the path)
CachePath_Shared(v) == ""

\* Path(local_path) / self.uid: the name of the cache root in local_path
CachePath(v) == uid(v)[1]

\* what directory n of local_path holds
DirShown(n) ==
    IF n = cpath THEN [fs |-> lfs, baks |-> baks]
    ELSE IF n \in DOMAIN others THEN others[n]
    ELSE [fs |-> EmptyFn, baks |-> EmptyFn]

\* self._cache_path is directory n from now on: lfs and baks show it
Shows(n) ==
    /\ cpath' = n
    /\ lfs' = DirShown(n).fs
    /\ baks' = DirShown(n).baks
    /\ others' = [m \in (DOMAIN others \cup {cpath}) \ {n} |-> DirShown(m)]

\* the constructor ended with exception c
ConstructRaises(tr, c) ==
    /\ status' = "raised"
    /\ cause' = c
    /\ trace' = tr

\* Device(client, local_path): one GET cp/version.json, then the identity
\* check, then _init_cache: makedirs(cache_path, exist_ok=True) and the
\* sidecar version.py written with json.dump(self._version)
Construct ==
    /\ status = "unbound"
    /\ op' = "init"
    /\ \E a \in {"ok", "err", "badjson"} :
        LET tr == <<Ev("GET", "init", VersionUrl, FALSE, a)>>
        IN  IF a # "ok"
            THEN /\ ConstructRaises(tr, ErrorText(a))
                 /\ UNCHANGED <<version, cachedir, iofaults, lfs, baks, cpath, others>>
            ELSE
            /\ version' = rversion
            /\ IF ~UidKnown(rversion)
               THEN /\ ConstructRaises(tr, "UnknownCircuitPythonDevice")
                    /\ UNCHANGED <<cachedir, iofaults, lfs, baks, cpath, others>>
               ELSE
               LET id == CachePath(rversion)
                   made == IF id \in DOMAIN cachedir THEN cachedir
                           ELSE Override(cachedir, id :> [sidecar |-> EmptyFn])
               IN  \E io \in {"ok", "makedirs", "open"} :
                   /\ io # "ok" => iofaults < MaxIOFaults
                   /\ iofaults' = IF io = "ok" THEN iofaults ELSE iofaults + 1
                   /\ Shows(id)
                   /\ CASE io = "makedirs" ->
                             /\ ConstructRaises(
                                    Append(tr, Ev("mkdir", "init", <<id>>, FALSE, "err")),
                                    "OSError")
                             /\ UNCHANGED cachedir
                        [] io = "open" ->
                             /\ ConstructRaises(
                                    tr \o <<Ev("mkdir", "init", <<id>>, FALSE, "ok"),
                                            Ev("write", "init", <<id, "version.py">>,
                                               FALSE, "err")>>,
                                    "OSError")
                             /\ cachedir' = made
                        [] io = "ok" ->
                             /\ status' = "idle"
                             /\ cause' = "none"
                             /\ trace' =
                                    tr \o <<Ev("mkdir", "init", <<id>>, FALSE, "ok"),
                                            Ev("write", "init", <<id, "version.py">>,
                                               FALSE, "ok")>>
                             /\ cachedir' = Override(made, id :> [sidecar |-> rversion])
    /\ UNCHANGED <<rdirs, rfiles, rversion, clock, runs, backup_path,
                   gen, pending, walk, tstack, tresult, pre, prev, prebaks>>

\* another device, of another identity, answers at the URL the next Device
\* is constructed for
Replug ==
    /\ status \notin {"running", "unbound"}
    /\ rversion = VerKnown
    /\ rversion' = VerOther
    /\ \E t \in RemoteTrees : rdirs' = t.dirs /\ rfiles' = t.files
    /\ status' = "unbound"
    /\ op' = "none"
    /\ cause' = "none"
    /\ version' = EmptyFn
    /\ trace' = <<>>
    /\ backup_path' = 0
    /\ gen' = NoGen
    /\ pending' = NoItem
    /\ walk' = NoWalk
    /\ tstack' = <<>>
    /\ tresult' = <<>>
    /\ pre' = lfs
    /\ prebaks' = baks
    /\ prev' = NoPrev
    /\ UNCHANGED <<lfs, baks, cachedir, cpath, others, clock, runs, iofaults>>

\* ------------------------------------------------------------ Device.pull
\* (a variant whose except clause sits inside the loop: the loop goes on)
PullAbort_KeepsGoing(tr, fs1, c, n) ==
    LET said == tr \o <<Ev("print", "pull", <<>>, FALSE, c),
                        Ev("print", "pull", <<>>, FALSE, "Aborting...")>>
    IN  /\ status' = "running"
        /\ cause' = c
        /\ pending' = NoItem
        /\ IF backup_path # 0
           THEN \E r \in restore_backup(fs1, baks, backup_path, n) :
                    /\ lfs' = r.fs
                    /\ iofaults' = IF r.fault THEN n + 1 ELSE n
                    /\ trace' = said
                           \o <<Ev("restore", "pull", <<>>, FALSE,
                                   IF r.ok THEN "ok" ELSE "failed")>>
                           \o (IF r.ok THEN <<>>
                               ELSE <<Ev("print", "pull", <<>>, FALSE,
                                         "Failed to restore backup")>>)
           ELSE /\ lfs' = fs1
                /\ iofaults' = n
                /\ trace' = said

\* (a variant that calls restore_backup whatever auto_backup returned)
ShouldRestore_Always(b) == TRUE

\* "if backup_path:"
ShouldRestore(b) == b # 0

\* the except clause of pull: report, then restore when a backup was taken;
\* pull then returns None, as it does after "Pull done"
PullAbort(tr, fs1, c, n) ==
    LET said == tr \o <<Ev("print", "pull", <<>>, FALSE, c),
                        Ev("print", "pull", <<>>, FALSE, "Aborting...")>>
    IN  /\ status' = "aborted"
        /\ cause' = c
        /\ pending' = NoItem
        /\ IF ShouldRestore(backup_path)
           THEN \E r \in restore_backup(fs1, baks, backup_path, n) :
                    /\ lfs' = r.fs
                    /\ iofaults' = IF r.fault THEN n + 1 ELSE n
                    /\ trace' = said
                           \o <<Ev("restore", "pull", <<>>, FALSE,
                                   IF r.ok THEN "ok" ELSE "failed")>>
                           \o (IF r.ok THEN <<>>
                               ELSE <<Ev("print", "pull", <<>>, FALSE,
                                         "Failed to restore backup")>>)
           ELSE /\ lfs' = fs1
                /\ iofaults' = n
                /\ trace' = said

\* ------------------------------------------------------------ Device.glob
\* The generator: gen.pc is "start" before the first next(), "run" inside
\* _recursive_glob, "done" once exhausted, "raised" once an exception left
\* it.  gen.stack holds the frames of the nested _recursive_glob calls, the
\* innermost last: its path, whether its listing was fetched, and the
\* entries of the listing its loop has still to visit.
Frame(p) == [path |-> p, listed |-> FALSE, ents |-> <<>>]

NewGen(pat, root) == [pattern |-> pat, root |-> root, pc |-> "start", stack |-> <<>>]

GenCanRun == status = "running" /\ op \in {"pull", "glob"} /\ pending = NoItem

Top == gen.stack[Len(gen.stack)]

Pop(stack) == SubSeq(stack, 1, Len(stack) - 1)

\* "if not pattern": the root itself is yielded
YieldsRoot_Always(pat) == TRUE

YieldsRoot(pat) == pat = ""

\* (a variant that does not look at the pattern)
Selected_Always(name, pat) == TRUE

\* "if not pattern_ or fnmatch(p.name, pattern_)"
Selected(name, pat) == pat = "" \/ fnmatch(name, pat)

\* the string yielded for an entry: p.as_posix() + "/" for a directory
Yielded(p, isdir) == [path |-> p, slash |-> isdir]

\* "yield from _recursive_glob(p, pattern_)": the call runs before the
\* caller's loop goes on
Recurse_AfterLoop(stack, p) == <<Frame(p)>> \o stack

Recurse(stack, p) == Append(stack, Frame(p))

\* the loop of pull takes the path; any other consumer just collects it
Handed(item) == IF op = "pull" THEN item ELSE NoItem

YieldEv(item) == Ev("yield", "glob", item.path, item.slash, "")

GenStart ==
    /\ GenCanRun
    /\ gen.pc = "start"
    /\ gen' = [gen EXCEPT !.pc = "run", !.stack = <<Frame(gen.root)>>]
    /\ IF YieldsRoot(gen.pattern)
       THEN /\ trace' = Append(trace, YieldEv(Yielded(gen.root, TRUE)))
            /\ pending' = Handed(Yielded(gen.root, TRUE))
       ELSE UNCHANGED <<trace, pending>>
    /\ UNCHANGED <<rdirs, rfiles, lfs, baks, clock, runs, iofaults, op, status,
                   cause, backup_path, walk, tstack, tresult, pre, prev, prebaks>>

    /\ UNCHANGED binding
\* resp = self.client.get(path.as_posix() + "/"); j = resp.json()
GenList ==
    /\ GenCanRun
    /\ gen.pc = "run"
    /\ gen.stack # <<>>
    /\ ~Top.listed
    /\ \E a \in ListAnswers(Top.path) :
        LET tr == Append(trace, Ev("GET", "glob", Top.path, TRUE, a))
        IN  CASE a = "ok" ->
                   /\ gen' = [gen EXCEPT !.stack[Len(gen.stack)] =
                                 [path |-> Top.path, listed |-> TRUE,
                                  ents |-> rdirs[Top.path]]]
                   /\ trace' = tr
                   /\ UNCHANGED <<lfs, iofaults, status, cause, pending>>
              [] a = "err" ->
                   \* except ClientRequestError: return
                   /\ gen' = [gen EXCEPT !.stack = Pop(gen.stack),
                                         !.pc = IF Len(gen.stack) = 1 THEN "done" ELSE "run"]
                   /\ trace' = tr
                   /\ UNCHANGED <<lfs, iofaults, status, cause, pending>>
              [] a = "badjson" ->
                   \* resp.json() raises a JSONDecodeError, which is no
                   \* ClientRequestError: it leaves every frame
                   /\ gen' = [gen EXCEPT !.stack = <<>>, !.pc = "raised"]
                   /\ IF op = "pull"
                      THEN PullAbort(tr, lfs, "JSONDecodeError", iofaults)
                      ELSE /\ status' = "raised"
                           /\ cause' = "JSONDecodeError"
                           /\ trace' = tr
                           /\ UNCHANGED <<lfs, iofaults, pending>>
    /\ UNCHANGED <<rdirs, rfiles, baks, clock, runs, op, backup_path, walk,
                   tstack, tresult, pre, prev, prebaks>>

    /\ UNCHANGED binding
\* one turn of "for f in files"
GenEntry ==
    /\ GenCanRun
    /\ gen.pc = "run"
    /\ gen.stack # <<>>
    /\ Top.listed
    /\ Top.ents # <<>>
    /\ LET f == Head(Top.ents)
           p == Append(Top.path, f.name)
           rest == [gen.stack EXCEPT ![Len(gen.stack)].ents = Tail(Top.ents)]
       IN  /\ gen' = [gen EXCEPT !.stack = IF f.directory THEN Recurse(rest, p) ELSE rest]
           /\ IF Selected(f.name, gen.pattern)
              THEN /\ trace' = Append(trace, YieldEv(Yielded(p, f.directory)))
                   /\ pending' = Handed(Yielded(p, f.directory))
              ELSE UNCHANGED <<trace, pending>>
    /\ UNCHANGED <<rdirs, rfiles, lfs, baks, clock, runs, iofaults, op, status,
                   cause, backup_path, walk, tstack, tresult, pre, prev, prebaks>>

    /\ UNCHANGED binding
\* the loop of a frame is over: the call returns to its caller
GenReturn ==
    /\ GenCanRun
    /\ gen.pc = "run"
    /\ gen.stack # <<>>
    /\ Top.listed
    /\ Top.ents = <<>>
    /\ gen' = [gen EXCEPT !.stack = Pop(gen.stack),
                          !.pc = IF Len(gen.stack) = 1 THEN "done" ELSE "run"]
    /\ UNCHANGED <<rdirs, rfiles, lfs, baks, clock, runs, iofaults, op, status,
                   cause, backup_path, pending, walk, tstack, tresult, trace, pre, prev, prebaks>>

    /\ UNCHANGED binding
\* a caller that consumes glob(pattern, root_path=root) to its end
GlobStart ==
    /\ CanStart
    /\ \E pat \in Patterns, root \in GlobRoots :
        gen' = NewGen(pat, root)
    /\ op' = "glob"
    /\ status' = "running"
    /\ cause' = "none"
    /\ runs' = runs + 1
    /\ backup_path' = 0
    /\ pending' = NoItem
    /\ trace' = <<>>
    /\ pre' = lfs
    /\ prebaks' = baks
    /\ prev' = Ended
    /\ walk' = NoWalk
    /\ tstack' = <<>>
    /\ tresult' = <<>>
    /\ UNCHANGED <<rdirs, rfiles, lfs, baks, clock, iofaults>>

    /\ UNCHANGED binding
GlobDone ==
    /\ status = "running"
    /\ op = "glob"
    /\ gen.pc = "done"
    /\ status' = "ok"
    /\ UNCHANGED <<rdirs, rfiles, lfs, baks, clock, runs, iofaults, op, cause,
                   backup_path, gen, pending, walk, tstack, tresult, trace, pre, prev, prebaks>>

    /\ UNCHANGED binding
\* ----------------------------------------------------- Device.pull, loop
\* datetime.now() is read once, by auto_backup: now is a second not before
\* the one the last backup read
PullStart ==
    /\ CanStart
    /\ \E now \in clock..MaxClock : \E b \in auto_backup(lfs, baks, now, iofaults) :
        /\ clock' = now
        /\ baks' = b.baks
        /\ backup_path' = b.ret
        /\ iofaults' = IF b.fault THEN iofaults + 1 ELSE iofaults
        /\ trace' = <<Ev("auto_backup", "pull", <<>>, FALSE,
                         IF b.ret # 0 THEN "created" ELSE "none")>>
    /\ op' = "pull"
    /\ status' = "running"
    /\ cause' = "none"
    /\ runs' = runs + 1
    /\ gen' = NewGen("", FsRoot)
    /\ pending' = NoItem
    /\ pre' = lfs
    /\ prebaks' = baks
    /\ prev' = Ended
    /\ walk' = NoWalk
    /\ tstack' = <<>>
    /\ tresult' = <<>>
    /\ UNCHANGED <<rdirs, rfiles, lfs>>

    /\ UNCHANGED binding
\* path.endswith("/"): self.client.get(path); os.makedirs(..., exist_ok=True)
PullDir ==
    /\ status = "running"
    /\ op = "pull"
    /\ pending # NoItem
    /\ pending.slash
    /\ \E a \in DirAnswers(pending.path) :
        LET tr == Append(trace, Ev("GET", "pull", pending.path, TRUE, a))
        IN  IF a = "err"
            THEN PullAbort(tr, lfs, "ClientRequestError", iofaults)
            ELSE \E io \in {"ok", "fault"} :
                   /\ io = "fault" => iofaults < MaxIOFaults
                   /\ IF io = "fault" \/ MkdirRefused(lfs, pending.path)
                      THEN PullAbort(
                               Append(tr, Ev("mkdir", "pull", pending.path, FALSE, "err")),
                               lfs, "OSError",
                               IF io = "fault" THEN iofaults + 1 ELSE iofaults)
                      ELSE /\ lfs' = makedirs(lfs, pending.path)
                           /\ trace' = Append(tr, Ev("mkdir", "pull", pending.path, FALSE, "ok"))
                           /\ pending' = NoItem
                           /\ UNCHANGED <<iofaults, status, cause>>
    /\ UNCHANGED <<rdirs, rfiles, baks, clock, runs, op, backup_path, gen, walk,
                   tstack, tresult, pre, prev, prebaks>>

    /\ UNCHANGED binding
\* else: self.download(path, self._cache_path / path)
PullFile ==
    /\ status = "running"
    /\ op = "pull"
    /\ pending # NoItem
    /\ ~pending.slash
    /\ \E a \in FileAnswers(pending.path) :
        LET tr == Append(trace, Ev("GET", "pull", pending.path, FALSE, a))
        IN  IF a = "err"
            THEN PullAbort(tr, lfs, "ClientRequestError", iofaults)
            ELSE \E io \in {"ok", "fault"} :
                   /\ io = "fault" => iofaults < MaxIOFaults
                   /\ IF io = "fault" \/ OpenRefused(lfs, pending.path)
                      THEN PullAbort(
                               Append(tr, Ev("write", "pull", pending.path, FALSE, "err")),
                               lfs, "OSError",
                               IF io = "fault" THEN iofaults + 1 ELSE iofaults)
                      ELSE /\ lfs' = Override(lfs, pending.path :> rfiles[pending.path])
                           /\ trace' = Append(tr, Ev("write", "pull", pending.path, FALSE, "ok"))
                           /\ pending' = NoItem
                           /\ UNCHANGED <<iofaults, status, cause>>
    /\ UNCHANGED <<rdirs, rfiles, baks, clock, runs, op, backup_path, gen, walk,
                   tstack, tresult, pre, prev, prebaks>>

    /\ UNCHANGED binding
\* the generator is exhausted: print("Pull done")
PullDone ==
    /\ status = "running"
    /\ op = "pull"
    /\ gen.pc = "done"
    /\ pending = NoItem
    /\ status' = "ok"
    /\ trace' = Append(trace, Ev("print", "pull", <<>>, FALSE, "Pull done"))
    /\ UNCHANGED <<rdirs, rfiles, lfs, baks, clock, runs, iofaults, op, cause,
                   backup_path, gen, pending, walk, tstack, tresult, pre, prev, prebaks>>

    /\ UNCHANGED binding
\* Ctrl-C while pull runs: a KeyboardInterrupt is raised in the loop; it is
\* no Exception, so "except Exception" of pull lets it pass, and it reaches
\* "except KeyboardInterrupt" of main, which prints "Interrupted."
PullInterrupt ==
    /\ status = "running"
    /\ op = "pull"
    /\ status' = "raised"
    /\ cause' = "KeyboardInterrupt"
    /\ gen' = [gen EXCEPT !.stack = <<>>, !.pc = "raised"]
    /\ pending' = NoItem
    /\ trace' = trace \o <<Ev("signal", "main", <<>>, FALSE, "KeyboardInterrupt"),
                            Ev("print", "main", <<>>, FALSE, "Interrupted.")>>
    /\ UNCHANGED <<rdirs, rfiles, lfs, baks, clock, runs, iofaults, op,
                   backup_path, walk, tstack, tresult, pre, prev, prebaks>>
    /\ UNCHANGED binding

\* ------------------------------------------------------------ Device.push
\* what a PUT that the device accepts leaves on the device
DevicePutDir(p) ==
    IF p \in DOMAIN rdirs THEN rdirs
    ELSE Override(rdirs,
             (p :> <<>>) @@
             (IF Parent(p) \in DOMAIN rdirs
              THEN Parent(p) :> Append(rdirs[Parent(p)], Entry(p[Len(p)], TRUE))
              ELSE EmptyFn))

DevicePutFileListing(p) ==
    IF p \in DOMAIN rfiles \/ Parent(p) \notin DOMAIN rdirs THEN rdirs
    ELSE Override(rdirs, Parent(p) :> Append(rdirs[Parent(p)], Entry(p[Len(p)], FALSE)))

\* the answers to PUT p/ and PUT p: the device refuses a path whose parent
\* it does not have, or that it holds as the other kind
PutDirAnswers(p) ==
    (IF (p = FsRoot \/ Parent(p) \in DOMAIN rdirs) /\ p \notin DOMAIN rfiles
     THEN {"ok"} ELSE {}) \cup {"err"}

PutFileAnswers(p) ==
    (IF Parent(p) \in DOMAIN rdirs /\ p \notin DOMAIN rdirs
     THEN {"ok"} ELSE {}) \cup {"err"}

\* the entries of local directory d, as scandir finds them
Children(fs, d) == {p \in DOMAIN fs : Len(p) = Len(d) + 1 /\ Parent(p) = d}

\* fs.rglob("*") starts from fs: the entries of a directory are produced
\* once the walk has reached the directory, in the order of scandir, and
\* a subdirectory is reached only through its entry in its parent
WalkStart_AnyDirectory(fs) == {d \in DOMAIN fs : fs[d] = "dir"}

WalkStart(fs) == {FsRoot}

NewWalk(fs) == [frontier |-> WalkStart(fs), cur |-> {}, started |-> TRUE]

PushStart ==
    /\ CanStart
    /\ op' = "push"
    /\ cause' = "none"
    /\ runs' = runs + 1
    /\ backup_path' = 0
    /\ gen' = NoGen
    /\ pending' = NoItem
    /\ trace' = <<>>
    /\ pre' = lfs
    /\ prebaks' = baks
    /\ prev' = Ended
    /\ tstack' = <<>>
    /\ tresult' = <<>>
    /\ IF IsDirAt(lfs, FsRoot)
       THEN status' = "running" /\ walk' = NewWalk(lfs)
       ELSE status' = "ok" /\ walk' = NoWalk
    /\ UNCHANGED <<rdirs, rfiles, lfs, baks, clock, iofaults>>

    /\ UNCHANGED binding
PushRunning == status = "running" /\ op = "push"

\* a ClientRequestError leaves the loop: "except ClientRequestError as e" is
\* around the for statement, and push returns
PushAbort_KeepsGoing(c) == status' = "running" /\ cause' = c

PushAbort(c) == status' = "aborted" /\ cause' = c

\* rglob moves on to the entries of a directory it has reached
PushScan ==
    /\ PushRunning
    /\ walk.cur = {}
    /\ \E d \in walk.frontier :
        walk' = [walk EXCEPT !.frontier = walk.frontier \ {d},
                             !.cur = Children(lfs, d)]
    /\ UNCHANGED <<rdirs, rfiles, lfs, baks, clock, runs, iofaults, op, status,
                   cause, backup_path, gen, pending, tstack, tresult, trace, pre, prev, prebaks>>

    /\ UNCHANGED binding
\* path.is_dir(): self.client.put(rel_path.as_posix() + "/")
PushDir ==
    /\ PushRunning
    /\ \E p \in walk.cur :
        /\ lfs[p] = "dir"
        /\ \E a \in PutDirAnswers(p) :
            /\ trace' = Append(trace, Ev("PUT", "push", p, TRUE, a))
                        \o (IF a = "err"
                            THEN <<Ev("print", "push", <<>>, FALSE, "ClientRequestError")>>
                            ELSE <<>>)
            /\ IF a = "err"
               THEN /\ PushAbort("ClientRequestError")
                    /\ UNCHANGED <<rdirs, walk>>
               ELSE /\ rdirs' = DevicePutDir(p)
                    /\ walk' = [walk EXCEPT !.cur = walk.cur \ {p},
                                            !.frontier = walk.frontier \cup {p}]
                    /\ UNCHANGED <<status, cause>>
    /\ UNCHANGED <<rfiles, lfs, baks, clock, runs, iofaults, op, backup_path, gen,
                   pending, tstack, tresult, pre, prev, prebaks>>

    /\ UNCHANGED binding
\* (a variant that opens the file for writing, which truncates it)
OpenedForRead_Truncates(fs, p) == Override(fs, p :> "")

\* open(filename, "rb"): what is on the local disk once the file is open
OpenedForRead(fs, p) == fs

\* else: self.upload(rel_path.as_posix(), path)
PushFile ==
    /\ PushRunning
    /\ \E p \in walk.cur :
        /\ lfs[p] # "dir"
        /\ \E io \in {"ok", "fault"} :
            /\ io = "fault" => iofaults < MaxIOFaults
            /\ IF io = "fault"
               THEN \* open(filename, "rb") raises: push does not catch OSError
                    /\ trace' = Append(trace, Ev("open", "push", p, FALSE, "err"))
                    /\ status' = "raised"
                    /\ cause' = "OSError"
                    /\ iofaults' = iofaults + 1
                    /\ UNCHANGED lfs
                    /\ UNCHANGED <<rdirs, rfiles, walk>>
               ELSE \E a \in PutFileAnswers(p) :
                    /\ trace' = Append(trace, Ev("PUT", "push", p, FALSE, a))
                                \o (IF a = "err"
                                    THEN <<Ev("print", "push", <<>>, FALSE, "ClientRequestError")>>
                                    ELSE <<>>)
                    /\ UNCHANGED iofaults
                    /\ lfs' = OpenedForRead(lfs, p)
                    /\ IF a = "err"
                       THEN /\ PushAbort("ClientRequestError")
                            /\ UNCHANGED <<rdirs, rfiles, walk>>
                       ELSE /\ rdirs' = DevicePutFileListing(p)
                            /\ rfiles' = Override(rfiles, p :> lfs[p])
                            /\ walk' = [walk EXCEPT !.cur = walk.cur \ {p}]
                            /\ UNCHANGED <<status, cause>>
    /\ UNCHANGED <<baks, clock, runs, op, backup_path, gen, pending, tstack,
                   tresult, pre, prev, prebaks>>

    /\ UNCHANGED binding
\* rglob is exhausted: print("Push done")
PushDone ==
    /\ PushRunning
    /\ walk.cur = {}
    /\ walk.frontier = {}
    /\ status' = "ok"
    /\ trace' = Append(trace, Ev("print", "push", <<>>, FALSE, "Push done"))
    /\ UNCHANGED <<rdirs, rfiles, lfs, baks, clock, runs, iofaults, op, cause,
                   backup_path, gen, pending, walk, tstack, tresult, pre, prev, prebaks>>

    /\ UNCHANGED binding
\* ------------------------------------------------------------ Device.tree
\* A dict is a sequence of [key, val] in insertion order.  A value is
\* [kind, entries, text]: kind "None" (a file), "dict" (entries is the
\* nested dict) or "str" (text is the pieces of the string).
ValNone == [kind |-> "None", entries |-> <<>>, text |-> <<>>]

ValDict(d) == [kind |-> "dict", entries |-> d, text |-> <<>>]

\* (a variant that stores the exception text without the marker)
ValError_Unmarked(e) == [kind |-> "str", entries |-> <<>>, text |-> <<"", e>>]

\* f"Error: {e}"
ValError(e) == [kind |-> "str", entries |-> <<>>, text |-> <<"Error: ", e>>]

HasKey(d, k) == \E i \in 1..Len(d) : d[i].key = k

\* d[k] = v
SetKey(d, k, v) ==
    IF HasKey(d, k)
    THEN [i \in 1..Len(d) |-> IF d[i].key = k THEN [key |-> k, val |-> v] ELSE d[i]]
    ELSE Append(d, [key |-> k, val |-> v])

\* the frame of one call tree(path, tree_): dict is its current_tree
TFrame(p) == [path |-> p, listed |-> FALSE, ents |-> <<>>, dict |-> <<>>]

\* "except Exception as e": what the try around get() and json() catches
TreeCatches_RequestErrorOnly(a) == a = "err"

TreeCatches(a) == a \in {"err", "badjson"}

TTop == tstack[Len(tstack)]

\* the call on top returns having left v under its path: v goes into the
\* dict of its caller (tree_[path]), or into the dict the first call returns
TreeReturnTo(v) ==
    IF Len(tstack) = 1
    THEN /\ tresult' = SetKey(tresult, TTop.path, v)
         /\ tstack' = <<>>
         /\ status' = "ok"
    ELSE /\ tstack' = [Pop(tstack) EXCEPT ![Len(tstack) - 1].dict =
                          SetKey(tstack[Len(tstack) - 1].dict, TTop.path, v)]
         /\ UNCHANGED <<tresult, status>>

TreeStart ==
    /\ CanStart
    /\ \E root \in GlobRoots :
        /\ tstack' = <<TFrame(root)>>
        /\ tresult' = <<[key |-> root, val |-> ValDict(<<>>)]>>
    /\ op' = "tree"
    /\ status' = "running"
    /\ cause' = "none"
    /\ runs' = runs + 1
    /\ backup_path' = 0
    /\ gen' = NoGen
    /\ pending' = NoItem
    /\ walk' = NoWalk
    /\ trace' = <<>>
    /\ pre' = lfs
    /\ prebaks' = baks
    /\ prev' = Ended
    /\ UNCHANGED <<rdirs, rfiles, lfs, baks, clock, iofaults>>

    /\ UNCHANGED binding
TreeRunning == status = "running" /\ op = "tree" /\ tstack # <<>>

\* resp = self.client.get(path.as_posix() + "/"); j = resp.json()
TreeList ==
    /\ TreeRunning
    /\ ~TTop.listed
    /\ \E a \in ListAnswers(TTop.path) :
        /\ trace' = Append(trace, Ev("GET", "tree", TTop.path, TRUE, a))
        /\ IF a = "ok"
           THEN /\ tstack' = [tstack EXCEPT ![Len(tstack)].listed = TRUE,
                                            ![Len(tstack)].ents = rdirs[TTop.path]]
                /\ UNCHANGED <<tresult, status, cause>>
           ELSE IF TreeCatches(a)
           THEN /\ TreeReturnTo(ValError(ErrorText(a)))
                /\ UNCHANGED cause
           ELSE /\ status' = "raised"
                /\ cause' = ErrorText(a)
                /\ tstack' = <<>>
                /\ UNCHANGED tresult
    /\ UNCHANGED <<rdirs, rfiles, lfs, baks, clock, runs, iofaults, op,
                   backup_path, gen, pending, walk, pre, prev, prebaks>>

    /\ UNCHANGED binding
\* one turn of "for f in files"
TreeEntry ==
    /\ TreeRunning
    /\ TTop.listed
    /\ TTop.ents # <<>>
    /\ LET f == Head(TTop.ents)
           p == Append(TTop.path, f.name)
           rest == [tstack EXCEPT ![Len(tstack)].ents = Tail(TTop.ents)]
       IN  IF f.directory
           THEN \* self.tree(p, current_tree): current_tree[p] = {} at once
                tstack' = Append([rest EXCEPT ![Len(tstack)].dict =
                                      SetKey(TTop.dict, p, ValDict(<<>>))],
                                 TFrame(p))
           ELSE tstack' = [rest EXCEPT ![Len(tstack)].dict = SetKey(TTop.dict, p, ValNone)]
    /\ UNCHANGED <<rdirs, rfiles, lfs, baks, clock, runs, iofaults, op, status,
                   cause, backup_path, gen, pending, walk, tresult, trace, pre, prev, prebaks>>

    /\ UNCHANGED binding
\* the loop is over: return tree_
TreeReturn ==
    /\ TreeRunning
    /\ TTop.listed
    /\ TTop.ents = <<>>
    /\ TreeReturnTo(ValDict(TTop.dict))
    /\ UNCHANGED <<rdirs, rfiles, lfs, baks, clock, runs, iofaults, op, cause,
                   backup_path, gen, pending, walk, trace, pre, prev, prebaks>>

    /\ UNCHANGED binding
\* ------------------------------------------- auto_backup, restore_backup
\* the two static methods called on their own, on the cache directory of
\* the device.  auto_backup(cache_path) reads the clock as pull's does.
AutoBackupCall ==
    /\ CanStart
    /\ \E now \in clock..MaxClock : \E b \in auto_backup(lfs, baks, now, iofaults) :
        /\ clock' = now
        /\ baks' = b.baks
        /\ backup_path' = b.ret
        /\ iofaults' = IF b.fault THEN iofaults + 1 ELSE iofaults
        /\ trace' = <<Ev("auto_backup", "caller", <<>>, FALSE,
                         IF b.ret # 0 THEN "created" ELSE "none")>>
    /\ op' = "auto_backup"
    /\ status' = "ok"
    /\ cause' = "none"
    /\ runs' = runs + 1
    /\ gen' = NoGen
    /\ pending' = NoItem
    /\ pre' = lfs
    /\ prebaks' = baks
    /\ prev' = Ended
    /\ walk' = NoWalk
    /\ tstack' = <<>>
    /\ tresult' = <<>>
    /\ UNCHANGED <<rdirs, rfiles, lfs>>

    /\ UNCHANGED binding
\* the backup_path a caller passes: the name of a snapshot, there or not,
\* or what the auto_backup just before returned (0 is None)
RestoreArgs == (1..MaxClock) \cup (IF op = "auto_backup" THEN {backup_path} ELSE {})

\* restore_backup(cache_path, backup_path): Path(None) raises a TypeError
\* before the try; every OSError inside it, the FileNotFoundError it raises
\* itself included, is printed and the call returns None
RestoreCall ==
    /\ CanStart
    /\ \E b \in RestoreArgs :
        /\ backup_path' = b
        /\ IF b = 0
           THEN /\ status' = "raised"
                /\ cause' = "TypeError"
                /\ trace' = <<>>
                /\ UNCHANGED <<lfs, iofaults>>
           ELSE \E r \in restore_backup(lfs, baks, b, iofaults) :
                /\ status' = "ok"
                /\ cause' = IF r.ok THEN "none"
                            ELSE IF b \in DOMAIN baks THEN "OSError"
                            ELSE "FileNotFoundError"
                /\ lfs' = r.fs
                /\ iofaults' = IF r.fault THEN iofaults + 1 ELSE iofaults
                /\ trace' = <<Ev("restore", "caller", <<>>, FALSE,
                                 IF r.ok THEN "ok" ELSE "failed")>>
                            \o (IF r.ok THEN <<>>
                                ELSE <<Ev("print", "caller", <<>>, FALSE,
                                          "Failed to restore backup")>>)
    /\ op' = "restore_backup"
    /\ runs' = runs + 1
    /\ gen' = NoGen
    /\ pending' = NoItem
    /\ pre' = lfs
    /\ prebaks' = baks
    /\ prev' = Ended
    /\ walk' = NoWalk
    /\ tstack' = <<>>
    /\ tresult' = <<>>
    /\ UNCHANGED <<rdirs, rfiles, baks, clock>>

    /\ UNCHANGED binding
\* ------------------------------------------------------------------- spec
\* a Device is constructed, then pull and push on its cache directory, one
\* operation at a time
Next ==
    \/ Construct
    \/ PullStart \/ PullDir \/ PullFile \/ PullDone
    \/ GenStart \/ GenList \/ GenEntry \/ GenReturn
    \/ PushStart \/ PushScan \/ PushDir \/ PushFile \/ PushDone

Spec == Init /\ [][Next]_vars

\* the command "pull" of main: Device(client, dst).pull(), and Ctrl-C
NextMain ==
    \/ Construct
    \/ PullStart \/ PullDir \/ PullFile \/ PullDone \/ PullInterrupt
    \/ GenStart \/ GenList \/ GenEntry \/ GenReturn

SpecMain == Init /\ [][NextMain]_vars

\* two devices, one local_path: every operation, on the device plugged in
NextTwo ==
    \/ Construct \/ Replug
    \/ PullStart \/ PullDir \/ PullFile \/ PullDone
    \/ GenStart \/ GenList \/ GenEntry \/ GenReturn
    \/ PushStart \/ PushScan \/ PushDir \/ PushFile \/ PushDone
    \/ AutoBackupCall \/ RestoreCall

SpecTwo == Init /\ [][NextTwo]_vars

\* auto_backup and restore_backup called on their own, between pulls
NextBackup ==
    \/ AutoBackupCall \/ RestoreCall
    \/ PullStart \/ PullDir \/ PullFile \/ PullDone
    \/ GenStart \/ GenList \/ GenEntry \/ GenReturn

SpecBackup == InitBackup /\ [][NextBackup]_vars

\* the enumerators alone: glob consumed to its end, and tree
NextEnum ==
    \/ GlobStart \/ GlobDone
    \/ GenStart \/ GenList \/ GenEntry \/ GenReturn
    \/ TreeStart \/ TreeList \/ TreeEntry \/ TreeReturn

SpecEnum == InitEnum /\ [][NextEnum]_vars

\* ================================================================= claims
Idx == 1..Len(trace)

\* a request to the device, or a local write or read of the loop body
IsStep(e) == e.ev \in {"GET", "PUT", "mkdir", "write", "open"}

IsLocalWrite(e) == e.ev \in {"mkdir", "write"}

\* a step that raised out of the loop of pull: a request or local write of
\* the loop body that failed, or a listing of glob whose body is not JSON
Raised(e) ==
    \/ e.by = "pull" /\ IsStep(e) /\ e.res = "err"
    \/ e.by = "glob" /\ e.ev = "GET" /\ e.res = "badjson"

\* a step that failed, raised or not
Failed(e) == IsStep(e) /\ e.res \in {"err", "badjson"}

PullEnded == op = "pull" /\ status \in {"ok", "aborted", "raised"}

\* C1: in a pull, auto_backup runs at most once, before every write to fs/,
\* and the snapshot it returned holds all of fs/ as it was before the pull
C1_BackupBeforeAnyWrite ==
    op = "pull" =>
        /\ Cardinality({i \in Idx : trace[i].ev = "auto_backup"}) <= 1
        /\ \A j \in Idx : IsLocalWrite(trace[j]) =>
               \E i \in 1..(j - 1) : trace[i].ev = "auto_backup"
        /\ backup_path # 0 =>
               /\ backup_path \in DOMAIN baks
               /\ \A r \in DOMAIN RelTree(pre) :
                      /\ r \in DOMAIN baks[backup_path]
                      /\ baks[backup_path][r] = RelTree(pre)[r]

C1_Witness ==
    /\ op = "pull"
    /\ backup_path # 0
    /\ P_x \in DOMAIN pre
    /\ \E j \in Idx : trace[j].ev = "write" /\ trace[j].res = "ok"

\* C2 (as claimed): after a pull that aborted having transferred at least
\* one path, fs/ is what it was before the pull; stated for the pulls
\* that took a backup, met a device error and whose restore_backup completed
C2_AbortLeavesPreState ==
    ( /\ op = "pull"
      /\ status = "aborted"
      /\ cause = "ClientRequestError"
      /\ \E i \in Idx : IsLocalWrite(trace[i]) /\ trace[i].res = "ok"
      /\ \E i \in Idx : trace[i].ev = "restore" /\ trace[i].res = "ok" )
    => lfs = pre

\* C3 (as claimed): in a pull, after a failed step of the enumeration or of
\* the transfer, no request is sent and nothing is written locally
C3_NoStepAfterAnyFailure ==
    op = "pull" =>
        \A i \in Idx : \A j \in Idx :
            (i < j /\ Failed(trace[i])) => ~IsStep(trace[j])

\* C3 (amended): in a pull, after a step that raised (a failed request or
\* local write of the loop body, a listing of glob that is not JSON), no
\* request is sent, nothing is written locally and nothing more is yielded
C3_NoStepAfterRaise ==
    op = "pull" =>
        \A i \in Idx : \A j \in Idx :
            (i < j /\ Raised(trace[i])) =>
                (~IsStep(trace[j]) /\ trace[j].ev # "yield")

C3_Witness ==
    /\ op = "pull"
    /\ status = "aborted"
    /\ \E i \in Idx : Raised(trace[i]) /\ trace[i].path = P_a
    /\ P_b \in DOMAIN rdirs
    /\ \A j \in Idx : trace[j].path # P_b

\* what the caller of pull or push gets: the exception that left the call,
\* or None when the call returned
Outcome == IF status = "raised" THEN cause ELSE "None"

\* C4 (as claimed): a pull that aborted hands its caller a failure carrying
\* the original cause, after the restore attempt
C4_AbortReachesCaller ==
    ( /\ PullEnded
      /\ \E i \in Idx : Raised(trace[i]) )
    => /\ Outcome # "None"
       /\ Outcome = cause

\* C5: in a push, the PUT of a directory below fs/ comes before every
\* request (and every read for an upload) of a path directly in it
C5_ParentCreatedFirst ==
    op = "push" =>
        \A j \in Idx :
            (trace[j].ev \in {"PUT", "open"} /\ Len(trace[j].path) > 2) =>
                \E i \in 1..(j - 1) :
                    /\ trace[i].ev = "PUT"
                    /\ trace[i].slash
                    /\ trace[i].path = Parent(trace[j].path)

C5_Witness ==
    /\ op = "push"
    /\ status = "ok"
    /\ \E j \in Idx : trace[j].ev = "PUT" /\ trace[j].path = P_bc /\ trace[j].res = "ok"

\* C6: in a push, after a request that failed, no request is sent; push
\* sends nothing but PUT
C6_PushStopsAtFailure ==
    op = "push" =>
        /\ \A i \in Idx : \A j \in Idx :
               (i < j /\ trace[i].ev = "PUT" /\ trace[i].res = "err") =>
                   ~IsStep(trace[j])
        /\ \A i \in Idx : trace[i].ev \in {"PUT", "open", "print"}
        /\ (\E i \in Idx : trace[i].ev = "PUT" /\ trace[i].res = "err") =>
               status = "aborted"

C6_Witness ==
    /\ op = "push"
    /\ status = "aborted"
    /\ \E i \in Idx : trace[i].ev = "PUT" /\ trace[i].res = "ok"
    /\ walk.cur # {}
    /\ walk.frontier # {}

\* the paths glob has yielded so far, in order
IsYield(e) == e.ev = "yield"

Yields == SelectSeq(trace, IsYield)

IsPrefix(d, p) == Len(d) <= Len(p) /\ SubSeq(p, 1, Len(d)) = d

Position(listing, n) == CHOOSE k \in 1..Len(listing) : listing[k].name = n

Listed(d, p) ==
    /\ d \in DOMAIN rdirs
    /\ Len(p) = Len(d) + 1
    /\ Parent(p) = d
    /\ \E k \in 1..Len(rdirs[d]) : rdirs[d][k].name = p[Len(p)]

\* C7: glob yields in depth-first pre-order: a directory before every path
\* below it, the paths below a directory in one run without a path from
\* elsewhere in between, and the entries of one directory in the order of
\* the device's listing
C7_DepthFirstPreOrder ==
    op = "glob" =>
        LET Y == Yields
        IN  /\ \A i \in 1..Len(Y) : \A j \in 1..Len(Y) :
                   ( /\ Y[i].slash
                     /\ Y[i].path # Y[j].path
                     /\ IsPrefix(Y[i].path, Y[j].path) ) => i < j
            /\ \A i \in 1..Len(Y) : \A k \in 1..Len(Y) : \A j \in (i + 1)..(k - 1) :
                   \A d \in Prefixes(Y[i].path) :
                       (d # <<>> /\ IsPrefix(d, Y[k].path)) => IsPrefix(d, Y[j].path)
            /\ \A i \in 1..Len(Y) : \A j \in 1..Len(Y) :
                   ( /\ i < j
                     /\ Parent(Y[i].path) = Parent(Y[j].path)
                     /\ Listed(Parent(Y[i].path), Y[i].path)
                     /\ Listed(Parent(Y[j].path), Y[j].path) )
                   => Position(rdirs[Parent(Y[i].path)], Y[i].path[Len(Y[i].path)])
                        < Position(rdirs[Parent(Y[j].path)], Y[j].path[Len(Y[j].path)])

\* all of the second device tree was yielded: d/ and d/e.py before b/, a.py last
C7_Witness ==
    /\ op = "glob"
    /\ status = "ok"
    /\ gen.pattern = ""
    /\ LET Y == Yields
       IN  /\ Len(Y) = 6
           /\ Y[2].path = P_d /\ Y[3].path = P_de /\ Y[4].path = P_b
           /\ Y[5].path = P_bc /\ Y[6].path = P_a

\* C8 (as claimed): when the listing request of a subdirectory fails
\* (request error or a body that is not JSON), glob does not fail
C8_ListingFailureNeverRaises ==
    ( /\ op = "glob"
      /\ \E i \in Idx :
             /\ trace[i].by = "glob" /\ trace[i].ev = "GET"
             /\ trace[i].res \in {"err", "badjson"}
             /\ trace[i].path # gen.root )
    => (gen.pc # "raised" /\ status # "raised")

\* C9: without a pattern glob yields the root with a trailing separator
\* first, before it sends a request, and nothing else when the root has no
\* entries; with a pattern it never yields the root
C9_RootYieldedFirst ==
    (op = "glob" /\ gen.pc # "start") =>
        /\ gen.pattern = "" =>
               /\ trace # <<>>
               /\ trace[1] = YieldEv([path |-> gen.root, slash |-> TRUE])
               /\ ( /\ status = "ok"
                    /\ gen.root \in DOMAIN rdirs
                    /\ rdirs[gen.root] = <<>> )
                  => Yields = <<YieldEv([path |-> gen.root, slash |-> TRUE])>>
        /\ gen.pattern # "" =>
               \A i \in Idx : IsYield(trace[i]) => trace[i].path # gen.root

C9_Witness ==
    /\ op = "glob"
    /\ status = "ok"
    /\ gen.pattern = ""
    /\ gen.root = FsRoot
    /\ rdirs[FsRoot] = <<>>
    /\ Len(Yields) = 1
    /\ \E i \in Idx : trace[i].ev = "GET" /\ trace[i].res = "ok"

\* the value a snapshot holds for path p, looked up through the nested dicts
ValMissing == [kind |-> "missing", entries |-> <<>>, text |-> <<>>]

RECURSIVE Find(_, _)
Find(d, p) ==
    IF HasKey(d, p)
    THEN d[CHOOSE i \in 1..Len(d) : d[i].key = p].val
    ELSE IF \E i \in 1..Len(d) : d[i].val.kind = "dict" /\ IsPrefix(d[i].key, p)
    THEN Find(d[CHOOSE i \in 1..Len(d) :
                    d[i].val.kind = "dict" /\ IsPrefix(d[i].key, p)].val.entries, p)
    ELSE ValMissing

\* C10: tree never raises; once it has returned, each directory whose
\* listing failed is an error string in the snapshot, and each directory
\* whose listing arrived is a dict that holds every entry of that listing
C10_TreeIsTotal ==
    op = "tree" =>
        /\ status # "raised"
        /\ status = "ok" =>
               \A i \in Idx :
                   trace[i].ev = "GET" =>
                       LET v == Find(tresult, trace[i].path)
                       IN  IF trace[i].res = "ok"
                           THEN /\ v.kind = "dict"
                                /\ \A k \in 1..Len(rdirs[trace[i].path]) :
                                       HasKey(v.entries,
                                              Append(trace[i].path,
                                                     rdirs[trace[i].path][k].name))
                           ELSE /\ v.kind = "str"
                                /\ v.text[1] = "Error: "

\* the listing of d/ arrived, that of b/ failed, a.py came after it
C10_Witness ==
    /\ op = "tree"
    /\ status = "ok"
    /\ Find(tresult, P_de) = ValNone
    /\ Find(tresult, P_b).kind = "str"
    /\ Find(tresult, P_a) = ValNone

\* every key of a snapshot, at every depth
RECURSIVE Keys(_)
Keys(d) ==
    UNION { {d[i].key} \cup (IF d[i].val.kind = "dict" THEN Keys(d[i].val.entries) ELSE {})
            : i \in 1..Len(d) }

\* each value is None, a dict whose values are of these shapes too, or a
\* string that starts with the error marker
RECURSIVE WellShaped(_)
WellShaped(d) ==
    \A i \in 1..Len(d) :
        LET v == d[i].val
        IN  \/ v = ValNone
            \/ v.kind = "dict" /\ v.text = <<>> /\ WellShaped(v.entries)
            \/ v.kind = "str" /\ v.entries = <<>> /\ Len(v.text) = 2 /\ v.text[1] = "Error: "

\* C11: in the snapshot tree has returned, every value at every depth is
\* None, a nested dict or a string that starts with "Error: "; a dict stands
\* only for a directory whose listing arrived, a directory whose listing
\* failed is a string and not the empty dict, and a file is None
C11_ValuesShaped ==
    (op = "tree" /\ status = "ok") =>
        /\ WellShaped(tresult)
        /\ \A p \in Keys(tresult) :
               LET v == Find(tresult, p)
               IN  /\ p \in DOMAIN rfiles => v = ValNone
                   /\ v.kind = "dict" =>
                          \E i \in Idx : /\ trace[i].ev = "GET" /\ trace[i].path = p
                                         /\ trace[i].res = "ok"
                   /\ (\E i \in Idx : /\ trace[i].ev = "GET" /\ trace[i].path = p
                                      /\ trace[i].res \in {"err", "badjson"})
                          => v # ValDict(<<>>) /\ v.kind = "str"

\* a file two levels down is None while the listing of d/ failed
C11_Witness ==
    /\ op = "tree"
    /\ status = "ok"
    /\ Find(tresult, P_bc) = ValNone
    /\ Find(tresult, P_d).kind = "str"
    /\ Find(tresult, FsRoot).kind = "dict"

\* two pulls in a row, both ended with "Pull done", without a failed
\* request, write or copy in either, on a cache whose fs/ existed before
TwoCleanPulls ==
    /\ op = "pull" /\ status = "ok"
    /\ prev.op = "pull" /\ prev.status = "ok"
    /\ ~prev.failed
    /\ \A i \in Idx : ~Failed(trace[i])
    /\ iofaults = 0
    /\ IsDirAt(prev.pre, FsRoot)

\* C12 (as claimed): the second of two successful pulls of an unchanged
\* device leaves fs/ as the first left it, and the two pulls created two
\* distinct snapshots, each equal to fs/ as it was just before its own pull
C12_TwoPullsTwoSnapshots ==
    TwoCleanPulls =>
        /\ lfs = pre
        /\ backup_path # 0 /\ prev.backup # 0
        /\ backup_path # prev.backup
        /\ baks[backup_path] = RelTree(pre)
        /\ baks[prev.backup] = RelTree(prev.pre)

\* restore_backup was called with what the auto_backup just before returned
RestoredLastBackup ==
    /\ op = "restore_backup"
    /\ prev.op = "auto_backup"
    /\ backup_path = prev.backup

\* C13: restore_backup(cache, auto_backup(cache)) with nothing in between
\* leaves fs/ with the paths and contents it had when the backup was made
C13_BackupRestoreRoundTrip ==
    RestoredLastBackup => (lfs = prev.pre /\ lfs = pre)

\* a nested tree went to a snapshot and came back
C13_Witness ==
    /\ RestoredLastBackup
    /\ prev.backup # 0
    /\ \E i \in Idx : trace[i].ev = "restore" /\ trace[i].res = "ok"
    /\ P_bc \in DOMAIN lfs
    /\ baks[backup_path] = RelTree(lfs)

\* the version response carries a non-empty identity
HasIdentity(v) == "UID" \in DOMAIN v /\ v["UID"] # ""

\* C14: the constructor sends exactly one request; when the version
\* response has no identity, or an empty one, it raises
\* UnknownCircuitPythonDevice and has made no cache directory and written no
\* sidecar; a constructor that returned has left the cache root of the
\* identity with the version response in its sidecar, and with an identity
\* only a failed request or a local I/O error keeps it from returning
C14_IdentityGatesCache ==
    op = "init" =>
        /\ Cardinality({i \in Idx : trace[i].ev = "GET"}) = 1
        /\ trace[1].ev = "GET"
        /\ (trace[1].res = "ok" /\ ~HasIdentity(rversion)) =>
               /\ status = "raised"
               /\ cause = "UnknownCircuitPythonDevice"
               /\ Len(trace) = 1
               /\ "" \notin DOMAIN cachedir
               /\ lfs = EmptyFn => cachedir = EmptyFn
        /\ status = "idle" =>
               /\ HasIdentity(version)
               /\ version = rversion
               /\ version["UID"] \in DOMAIN cachedir
               /\ cachedir[version["UID"]].sidecar = version
        /\ (HasIdentity(rversion) /\ \A i \in Idx : trace[i].res = "ok") =>
               status = "idle"

\* the device answered with an empty identity, next to a local_path that
\* holds no cache root
C14_Witness ==
    /\ op = "init"
    /\ rversion = VerEmptyUID
    /\ trace = <<Ev("GET", "init", VersionUrl, FALSE, "ok")>>
    /\ cause = "UnknownCircuitPythonDevice"
    /\ cachedir = EmptyFn

\* a push without a failed request, right after a pull that ended with
\* "Pull done" without a failed request, write or copy
PullThenPush ==
    /\ op = "push" /\ status = "ok"
    /\ prev.op = "pull" /\ prev.status = "ok"
    /\ ~prev.failed
    /\ iofaults = 0

\* the paths push sent a request for, a directory create or an upload
Pushed ==
    {[path |-> trace[i].path, slash |-> trace[i].slash] :
        i \in {k \in Idx : trace[k].ev = "PUT"}}

\* C15 (as claimed): the paths a push after a pull sends are the paths
\* below the root the pull transferred, directories as directory creates
\* and files as uploads
C15_PushEqualsPulled ==
    PullThenPush => Pushed = {m \in prev.moved : m.path # FsRoot}

\* restore_backup was called with a backup_path that is no snapshot
RestoreOfMissing ==
    /\ op = "restore_backup"
    /\ backup_path # 0
    /\ backup_path \notin DOMAIN prebaks

\* C16 (as claimed): restore_backup of a backup_path that does not exist
\* ends with a not-found error at its caller, is tried once, and leaves fs/
\* as it was
C16_MissingBackupReachesCaller ==
    RestoreOfMissing =>
        /\ Outcome = "FileNotFoundError"
        /\ Cardinality({i \in Idx : trace[i].ev = "restore"}) <= 1
        /\ lfs = pre

Interrupted == op = "pull" /\ cause = "KeyboardInterrupt"

\* C17 (as claimed): a pull that Ctrl-C interrupts processes no further
\* path and, when it took a backup, calls restore_backup with it
C17_InterruptRestores ==
    Interrupted =>
        /\ \A i \in Idx : \A j \in Idx :
               (i < j /\ trace[i].ev = "signal") =>
                   (~IsStep(trace[j]) /\ trace[j].ev # "yield")
        /\ backup_path # 0 => \E i \in Idx : trace[i].ev = "restore"

\* auto_backup returned None to pull
NoBackupTaken == op = "pull" /\ trace[1].ev = "auto_backup" /\ trace[1].res = "none"

\* C18: when auto_backup returns None to pull, because fs/ is not there
\* (then it has made no snapshot directory) or because its copy met an
\* OSError, it has not raised: pull goes on to enumerate, and a pull that
\* aborts later does not call restore_backup
C18_NoBackupNoRestore ==
    NoBackupTaken =>
        /\ backup_path = 0
        /\ ~IsDirAt(pre, FsRoot) => baks = prebaks
        /\ Len(trace) = 1 => (status = "running" /\ gen.pc = "start" /\ ENABLED GenStart)
        /\ \A i \in Idx : trace[i].ev # "restore"

\* the copy of a backup failed, the pull wrote a.py and aborted after it
C18_Witness ==
    /\ NoBackupTaken
    /\ IsDirAt(pre, FsRoot)
    /\ status = "aborted"
    /\ \E i \in Idx : trace[i].ev = "write" /\ trace[i].res = "ok"

\* this step ran restore_backup: called by itself, or by pull's except clause
RestoreRan ==
    \/ op' = "restore_backup" /\ runs' = runs + 1 /\ backup_path' # 0
    \/ /\ op = "pull" /\ status = "running" /\ status' = "aborted"
       /\ backup_path # 0

\* C19: restore_backup merges: what was in fs/ before it is there after it,
\* unchanged when the snapshot has no such path; when it completed, every
\* path of the snapshot is in fs/ with the snapshot's content; nothing is
\* in fs/ after it that was in neither
C19_RestoreMerges ==
    [][ RestoreRan =>
          LET b == backup_path'
          IN  IF b \notin DOMAIN baks
              THEN lfs' = lfs
              ELSE /\ \A p \in DOMAIN lfs :
                         /\ p \in DOMAIN lfs'
                         /\ Tail(p) \notin DOMAIN baks[b] => lfs'[p] = lfs[p]
                   /\ \A p \in DOMAIN lfs' :
                         p \in DOMAIN lfs \/ Tail(p) \in DOMAIN baks[b]
                   /\ (\E i \in 1..Len(trace') :
                           trace'[i].ev = "restore" /\ trace'[i].res = "ok")
                      => \A r \in DOMAIN baks[b] :
                             /\ FsRoot \o r \in DOMAIN lfs'
                             /\ lfs'[FsRoot \o r] = baks[b][r]
      ]_vars

\* the restore of an aborted pull completed: x.py is back from the
\* snapshot and a.py, written by the pull and not in the snapshot, stays
C19_Witness ==
    /\ op = "pull"
    /\ status = "aborted"
    /\ \E i \in Idx : trace[i].ev = "restore" /\ trace[i].res = "ok"
    /\ <<"x.py">> \in DOMAIN baks[backup_path]
    /\ <<"a.py">> \notin DOMAIN baks[backup_path]
    /\ P_a \in DOMAIN lfs
    /\ P_x \in DOMAIN lfs

\* C20 (as claimed): whatever was called, without any local I/O error,
\* each snapshot there before the last call is still there with the
\* contents it had, and an auto_backup that returned a path (called by
\* itself or by pull) made a snapshot that was not there before
C20_SnapshotsNeverOverwritten ==
    iofaults = 0 =>
        /\ \A t \in DOMAIN prebaks : t \in DOMAIN baks /\ baks[t] = prebaks[t]
        /\ (op \in {"pull", "auto_backup"} /\ backup_path # 0) =>
               backup_path \notin DOMAIN prebaks

\* the calls of restore_backup a pull has made
Restores == {i \in Idx : trace[i].ev = "restore"}

\* the pull is over without "Pull done": its except clause ran, or an
\* interrupt left it
PullStopped == op = "pull" /\ status \in {"aborted", "raised"}

\* C21 (as claimed): a pull calls restore_backup exactly when it has
\* stopped before its end and its auto_backup had returned a snapshot; at
\* most once, after the step that stopped it, with that snapshot
C21_RestoreIffAbortedWithBackup ==
    op = "pull" =>
        /\ Cardinality(Restores) <= 1
        /\ Restores # {} <=> (PullStopped /\ backup_path # 0)
        /\ \A i \in Restores :
               /\ trace[1].ev = "auto_backup" /\ trace[1].res = "created"
               /\ backup_path \in DOMAIN baks
               /\ \A j \in Idx : IsStep(trace[j]) => j < i

\* the listings glob has received
GlobListed == {i \in Idx : trace[i].by = "glob" /\ trace[i].ev = "GET" /\ trace[i].res = "ok"}

NameMatches(n) == gen.pattern = "" \/ fnmatch(n, gen.pattern)

\* C22: once glob is exhausted, an entry of a listing it received was
\* yielded exactly when its own name matches the pattern (every entry when
\* the pattern is empty), a directory with the trailing "/" and a file
\* without; each directory entry was descended into, matching or not; and
\* nothing else was yielded but the root
C22_LeafNameMatching ==
    (op = "glob" /\ status = "ok") =>
        /\ \A i \in GlobListed :
               \A k \in 1..Len(rdirs[trace[i].path]) :
                   LET e == rdirs[trace[i].path][k]
                       p == Append(trace[i].path, e.name)
                   IN  /\ NameMatches(e.name) <=>
                              \E j \in Idx : IsYield(trace[j]) /\ trace[j].path = p
                       /\ \A j \in Idx :
                              (IsYield(trace[j]) /\ trace[j].path = p) =>
                                  trace[j].slash = e.directory
                       /\ e.directory =>
                              \E j \in Idx : /\ trace[j].by = "glob" /\ trace[j].ev = "GET"
                                             /\ trace[j].path = p
        /\ \A j \in Idx :
               (IsYield(trace[j]) /\ trace[j].path # gen.root) =>
                   \E i \in GlobListed : Listed(trace[i].path, trace[j].path)

\* "*.py" from fs/: the three files, two of them below directories whose
\* names do not match, and no directory
C22_Witness ==
    /\ op = "glob"
    /\ status = "ok"
    /\ gen.pattern = "*.py"
    /\ LET Y == Yields
       IN  /\ Len(Y) = 3
           /\ Y[1].path = P_de /\ Y[2].path = P_bc /\ Y[3].path = P_a
           /\ \A i \in 1..3 : ~Y[i].slash

\* a request or a local read or write of the loop body of pull or push
\* failed: a device error, or a local I/O error
OwnStepFailed ==
    \E i \in Idx : trace[i].by = op /\ IsStep(trace[i]) /\ trace[i].res = "err"

\* C23 (as claimed): a pull or a push whose step failed ends the same way
\* for its caller whether the device or the local disk failed: the loop
\* stops and the call returns
C23_LocalErrorAsDeviceError ==
    (op \in {"pull", "push"} /\ OwnStepFailed) =>
        (status = "aborted" /\ Outcome = "None")

\* C24: a push, however it ends, leaves fs/ and the snapshots as they were
\* when it began, takes no backup and calls no restore; when fs/ is not
\* there it sends no request
C24_PushIsLocalReadOnly ==
    op = "push" =>
        /\ lfs = pre
        /\ baks = prebaks
        /\ backup_path = 0
        /\ \A i \in Idx : trace[i].ev \notin {"auto_backup", "restore", "mkdir", "write"}
        /\ ~IsDirAt(pre, FsRoot) =>
               /\ status = "ok"
               /\ \A i \in Idx : ~IsStep(trace[i])

\* a push that uploaded a file and then stopped at a failed request
C24_Witness ==
    /\ op = "push"
    /\ status = "aborted"
    /\ \E i \in Idx : /\ trace[i].ev = "PUT" /\ ~trace[i].slash /\ trace[i].res = "ok"
                      /\ lfs[trace[i].path] = "old"
    /\ baks # EmptyFn

\* C25: when pull is about to write a file it was handed, and whenever it
\* has tried to, the local directory the file goes into exists: its path
\* was yielded, and created by the pull, before
C25_ParentExistsAtWrite ==
    op = "pull" =>
        /\ (status = "running" /\ pending # NoItem /\ ~pending.slash) =>
               IsDirAt(lfs, Parent(pending.path))
        /\ \A j \in Idx :
               trace[j].ev = "write" =>
                   /\ \E i \in 1..(j - 1) :
                          /\ trace[i].ev = "mkdir" /\ trace[i].res = "ok"
                          /\ trace[i].path = Parent(trace[j].path)
                   /\ \E i \in 1..(j - 1) :
                          /\ IsYield(trace[i]) /\ trace[i].slash
                          /\ trace[i].path = Parent(trace[j].path)
                   /\ trace[j].res = "ok" => IsDirAt(lfs, Parent(trace[j].path))

\* on a cache without fs/, b/c.py was written into the b/ the pull made
C25_Witness ==
    /\ op = "pull"
    /\ pre = EmptyFn
    /\ \E j \in Idx : trace[j].ev = "write" /\ trace[j].res = "ok" /\ trace[j].path = P_bc

\* the names a cache root can get in local_path ("" is local_path itself)
Names == {"", "A", "B"}

\* all that local_path holds under name n: the sidecar, fs/ and _bak/
Under(n) ==
    [side |-> IF n \in DOMAIN cachedir THEN cachedir[n] ELSE [sidecar |-> EmptyFn],
     there |-> n \in DOMAIN cachedir,
     dir |-> DirShown(n)]

\* the identity of the device the Device object is, or is being, bound to
Acting(v) == IF HasIdentity(v) THEN v["UID"] ELSE "none"

\* C26: a step of the constructor, auto_backup, restore_backup, pull or
\* push on the device of identity A changes nothing in local_path but under
\* the name A: what is under any other name, the cache root of another
\* identity included, is after the step what it was before
C26_CacheNamespaced ==
    [][ \A n \in Names : n # Acting(rversion') => Under(n)' = Under(n) ]_vars

\* the device B was pulled after the device A: fs/ of B holds what the pull
\* wrote, the cache root of A holds what it held
C26_Witness ==
    /\ cpath = "B"
    /\ op = "pull"
    /\ \E i \in Idx : trace[i].ev = "write" /\ trace[i].res = "ok"
    /\ "A" \in DOMAIN others
    /\ P_x \in DOMAIN others["A"].fs
    /\ P_x \notin DOMAIN lfs
    /\ {"A", "B"} \subseteq DOMAIN cachedir

====
